---- MODULE Spec2Model ----
(***************************************************************************)
(* Model of scripts/hash_all_files.py: per-file hashing of a numbered      *)
(* range of files (hash_all), aggregation into a concatenated digest       *)
(* string and a hash of hashes, and the four output files written by       *)
(* hashAll_and_save.                                                       *)
(*                                                                         *)
(* Text is a sequence of one-character strings (a few fixed literals are   *)
(* kept as one symbol).  SHA-256 is replaced by a deterministic            *)
(* fixed-width hex digest of DigestLen digits computed over the bytes.     *)
(***************************************************************************)
EXTENDS Integers, Sequences, FiniteSets, TLC

\* ------------------------------------------------------------------ bounds
MaxCount == 3        \* largest value of the iterations argument
DigestLen == 2       \* hex digits of a digest (64 for real SHA-256)

Procs == {1, 2}      \* invocations of hashAll_and_save
SeqProcs == {1}      \* the single invocation of a sequential run

\* ------------------------------------------------------------- text helpers
Digits == <<"0", "1", "2", "3", "4", "5", "6", "7", "8", "9">>
HexDigits == Digits \o <<"a", "b", "c", "d", "e", "f">>

RECURSIVE str(_)
\* str(i) for a non-negative int: decimal digits, most significant first
str(i) == IF i < 10 THEN <<Digits[i + 1]>>
          ELSE str(i \div 10) \o <<Digits[(i % 10) + 1]>>

\* code point of a character (UTF-8 of ASCII text is one byte per character)
Ord(c) == IF c = "\n" THEN 10
          ELSE IF \E k \in 1..16 : HexDigits[k] = c
               THEN LET k == CHOOSE k \in 1..16 : HexDigits[k] = c
                    IN  IF k <= 10 THEN 47 + k ELSE 86 + k
               ELSE 120

\* stringToHash.encode("UTF-8")
encode(s) == [k \in 1..Len(s) |-> Ord(s[k])]

RECURSIVE Pow16(_)
Pow16(n) == IF n = 0 THEN 1 ELSE 16 * Pow16(n - 1)

RECURSIVE update(_, _)
\* hash.update(bytes): absorb the bytes one after the other into the state
update(h, bytes) == IF bytes = <<>> THEN h
                    ELSE update((h * 31 + Head(bytes)) % Pow16(DigestLen), Tail(bytes))

RECURSIVE ToHex(_, _)
ToHex(v, n) == IF n = 0 THEN <<>>
               ELSE ToHex(v \div 16, n - 1) \o <<HexDigits[(v % 16) + 1]>>

\* hash.hexdigest(): fixed-width lowercase hex
hexdigest(h) == ToHex(h, DigestLen)

\* hashlib.sha256(): the initial hash state
NewHash == 7 % Pow16(DigestLen)

hashString(stringToHash) == hexdigest(update(NewHash, encode(stringToHash)))

\* ------------------------------------------------------------------- files
File(data) == [exists |-> TRUE, data |-> data]
NoFile == [exists |-> FALSE, data |-> <<>>]

Folders == [p \in Procs |-> IF p = 1 THEN <<"a", "/">> ELSE <<"b", "/">>]
Exts == {<<>>, <<"p">>}
FileContents == {<<97>>, <<98>>}
Alias == <<"m">>
Stale == <<"x", "\n", "x">>

\* line 34: file = folder+str(i)+"."+fileExt
Path(fold, ext, i) == fold \o str(i) \o <<".">> \o ext

\* the same name without the dot (the layout  <folder><index>  )
PlainPath(fold, i) == fold \o str(i)

InputPaths(ext) == {Path(Folders[p], ext, i) : p \in Procs, i \in 0..(MaxCount - 1)}
                   \cup {PlainPath(Folders[p], i) : p \in Procs, i \in 0..(MaxCount - 1)}

Artifacts == {"csv", "txt", "concat", "hoh"}

\* variant: the first two write blocks in the other order
ArtifactOrder_swapped == <<"txt", "csv", "concat", "hoh">>

\* order of the write blocks in hashAll_and_save (lines 59-79)
ArtifactOrder == <<"csv", "txt", "concat", "hoh">>

VARIABLES
    fs,            \* input files: path -> File(bytes) or NoFile
    destExists,    \* os.path.exists(dest_folder)
    out,           \* the four output files in dest_folder
    prior,         \* the output files as they were before any invocation
    fileExt,       \* the fileExt argument (shared by the invocations)
    iterations,    \* per invocation: the iterations argument
    pc,            \* per invocation: position in hashAll_and_save
    i,             \* per invocation: loop variable of hash_all
    hashesDict,    \* per invocation: ordered dict as a sequence of <<key, hash>>
    hashes_concat, \* per invocation
    hash_of_hashes,\* per invocation
    readLog,       \* per invocation: the paths passed to sha256, in order
    failedAt,      \* per invocation: the step that raised ("" if none)
    fault,         \* invocations that suffered an I/O error of the environment
    ret            \* per invocation: the returned dictionary

vars == <<fs, destExists, out, prior, fileExt, iterations, pc, i, hashesDict,
          hashes_concat, hash_of_hashes, readLog, failedAt, fault, ret>>

\* sha256(filename): digest of the bytes of the file (read in chunks)
sha256(filename) == hexdigest(update(NewHash, fs[filename].data))

\* variant: the new entry goes to the front of the dict
DictUpdate_prepend(d, k, v) == <<(<<k, v>>)>> \o d

\* hashes.update({i:hash}) on an insertion-ordered dict
DictUpdate(d, k, v) ==
    IF \E j \in 1..Len(d) : d[j][1] = k
    THEN [j \in 1..Len(d) |-> IF d[j][1] = k THEN <<k, v>> ELSE d[j]]
    ELSE Append(d, <<k, v>>)

RECURSIVE ConcatHashes_reversed(_)
\* variant: hashes_concat = hashesDict[k] + hashes_concat
ConcatHashes_reversed(d) == IF d = <<>> THEN <<>>
                            ELSE ConcatHashes_reversed(Tail(d)) \o Head(d)[2]

\* variant: hashes_concat = hashesDict[k]  (assignment instead of +=)
ConcatHashes_last(d) == IF d = <<>> THEN <<>> ELSE d[Len(d)][2]

RECURSIVE ConcatHashes(_)
\* lines 53-55: for k in hashesDict: hashes_concat+=hashesDict[k]
ConcatHashes(d) == IF d = <<>> THEN <<>>
                   ELSE Head(d)[2] \o ConcatHashes(Tail(d))

\* csv.writer QUOTE_MINIMAL: a field is quoted when it holds the delimiter,
\* the quote character or a line break; quote characters are doubled
NeedsQuote(f) == \E k \in 1..Len(f) : f[k] \in {";", "\"", "\n", "\r"}

RECURSIVE DoubleQuotes(_)
DoubleQuotes(f) == IF f = <<>> THEN <<>>
                   ELSE (IF Head(f) = "\"" THEN <<"\"", "\"">> ELSE <<Head(f)>>)
                        \o DoubleQuotes(Tail(f))

csvField(f) == IF NeedsQuote(f) THEN <<"\"">> \o DoubleQuotes(f) \o <<"\"">> ELSE f

\* data.writerow([a, b]) with delimiter=';' and lineterminator="\n"
writerow(a, b) == csvField(a) \o <<";">> \o csvField(b) \o <<"\n">>

RECURSIVE csvRows(_)
\* lines 64-65: for i in hashesDict: data.writerow([i, hashesDict[i]])
csvRows(d) == IF d = <<>> THEN <<>>
              ELSE writerow(str(Head(d)[1]), Head(d)[2]) \o csvRows(Tail(d))

\* lines 61-65: the whole CSV text
csvData(al, d) == writerow(<<"token id">>, al \o <<" hash (sha256)">>) \o csvRows(d)

RECURSIVE txtData(_)
\* lines 68-72: a line break goes before the hash of every key j > 1
txtData(d) == IF d = <<>> THEN <<>>
              ELSE LET rest == txtData(SubSeq(d, 1, Len(d) - 1))
                       last == d[Len(d)]
                   IN  (IF last[1] > 1 THEN rest \o <<"\n">> ELSE rest) \o last[2]

\* variant: open(path, mode='a'), the data goes after the old content
WriteW_append(old, data) == File(old.data \o data)

\* open(path, mode='w') followed by write(data): the old content is dropped
WriteW(old, data) == File(data)

\* what each write block writes (lines 61-79)
Payload(p, name) ==
    CASE name = "csv"    -> csvData(Alias, hashesDict[p])
      [] name = "txt"    -> txtData(hashesDict[p])
      [] name = "concat" -> hashes_concat[p]
      [] name = "hoh"    -> hash_of_hashes[p]

Prefixes(s) == {SubSeq(s, 1, n) : n \in 0..Len(s)}

NextPc(name) ==
    LET k == CHOOSE k \in 1..Len(ArtifactOrder) : ArtifactOrder[k] = name
    IN  IF k = Len(ArtifactOrder) THEN "returned" ELSE ArtifactOrder[k + 1]

\* variant: the line breaks are kept
StripNewlines_none(s) == s

\* list.replace("\n", "")
RECURSIVE StripNewlines(_)
StripNewlines(s) == IF s = <<>> THEN <<>>
                    ELSE (IF Head(s) = "\n" THEN <<>> ELSE <<Head(s)>>)
                         \o StripNewlines(Tail(s))

hashListString(list) == hashString(StripNewlines(list))

getListFromTxtFile(file) == out[file].data

\* -------------------------------------------------------------------- Init
NoRet == [dictionary |-> <<>>, concatenated |-> <<>>, hashOfAll |-> <<>>]

InitLocals ==
    /\ pc = [p \in Procs |-> "start"]
    /\ i = [p \in Procs |-> 0]
    /\ hashesDict = [p \in Procs |-> <<>>]
    /\ hashes_concat = [p \in Procs |-> <<>>]
    /\ hash_of_hashes = [p \in Procs |-> <<>>]
    /\ readLog = [p \in Procs |-> <<>>]
    /\ failedAt = [p \in Procs |-> ""]
    /\ fault = {}
    /\ ret = [p \in Procs |-> NoRet]

\* destination folder: absent, or present with each output file absent or stale
InitDest ==
    /\ destExists \in BOOLEAN
    /\ \E stale \in SUBSET Artifacts :
          /\ (~destExists => stale = {})
          /\ stale \in {{}, Artifacts, {"csv", "txt"}, {"concat", "hoh"}}
          /\ out = [a \in Artifacts |-> IF a \in stale THEN File(Stale) ELSE NoFile]
    /\ prior = out

\* one invocation: any count, any extension, any subset of the input files
Init ==
    /\ fileExt \in Exts
    /\ iterations \in [Procs -> 0..MaxCount]
    /\ iterations[2] = 0
    /\ \E plain \in BOOLEAN :
       \E content \in [0..(MaxCount - 1) -> FileContents \cup {<<>>}] :
       \E present \in SUBSET (0..(MaxCount - 1)) :
          fs = [path \in InputPaths(fileExt) |->
                  IF \E k \in 0..(MaxCount - 1) : path = Path(Folders[1], fileExt, k)
                  THEN LET k == CHOOSE k \in 0..(MaxCount - 1) :
                                   path = Path(Folders[1], fileExt, k)
                       IN  IF k \in present THEN File(content[k]) ELSE NoFile
                  ELSE IF plain /\ \E k \in 0..(MaxCount - 1) :
                                       path = PlainPath(Folders[1], k)
                       THEN File(<<97>>)
                       ELSE NoFile]
    /\ InitDest
    /\ InitLocals

\* ----------------------------------------------------------------- actions
Fail(p, where) ==
    /\ pc' = [pc EXCEPT ![p] = "failed"]
    /\ failedAt' = [failedAt EXCEPT ![p] = where]

\* variant: os.mkdir without the existence check
CheckFolder_noCheck(p) ==
    /\ pc[p] = "start"
    /\ pc' = [pc EXCEPT ![p] = "mkdir"]
    /\ UNCHANGED <<fs, destExists, out, prior, fileExt, iterations, i, hashesDict,
                   hashes_concat, hash_of_hashes, readLog, failedAt, fault, ret>>

\* line 43: if not os.path.exists(dest_folder)
CheckFolder(p) ==
    /\ pc[p] = "start"
    /\ pc' = [pc EXCEPT ![p] = IF destExists THEN "hash" ELSE "mkdir"]
    /\ UNCHANGED <<fs, destExists, out, prior, fileExt, iterations, i, hashesDict,
                   hashes_concat, hash_of_hashes, readLog, failedAt, fault, ret>>

\* line 44: os.mkdir(dest_folder); raises FileExistsError when the folder
\* exists by now, and may fail for a reason of the environment
Mkdir(p) ==
    /\ pc[p] = "mkdir"
    /\ IF destExists
       THEN /\ Fail(p, "mkdir")
            /\ UNCHANGED <<destExists, fault>>
       ELSE \E ok \in BOOLEAN :
               IF ok
               THEN /\ destExists' = TRUE
                    /\ pc' = [pc EXCEPT ![p] = "hash"]
                    /\ UNCHANGED <<failedAt, fault>>
               ELSE /\ Fail(p, "mkdir")
                    /\ fault' = fault \cup {p}
                    /\ UNCHANGED destExists
    /\ UNCHANGED <<fs, out, prior, fileExt, iterations, i, hashesDict,
                   hashes_concat, hash_of_hashes, readLog, ret>>

\* variant: a file that cannot be read is skipped and the loop goes on
HashFile_skip(p) ==
    /\ pc[p] = "hash"
    /\ i[p] < iterations[p]
    /\ LET file == Path(Folders[p], fileExt, i[p])
       IN  /\ readLog' = [readLog EXCEPT ![p] = Append(@, file)]
           /\ hashesDict' = [hashesDict EXCEPT ![p] =
                               IF fs[file].exists THEN DictUpdate(@, i[p], sha256(file)) ELSE @]
           /\ i' = [i EXCEPT ![p] = @ + 1]
    /\ UNCHANGED <<fs, destExists, out, prior, fileExt, iterations, pc, failedAt,
                   hashes_concat, hash_of_hashes, fault, ret>>

\* lines 33-38: one iteration of the loop of hash_all
HashFile(p) ==
    /\ pc[p] = "hash"
    /\ i[p] < iterations[p]
    /\ LET file == Path(Folders[p], fileExt, i[p])
       IN  /\ readLog' = [readLog EXCEPT ![p] = Append(@, file)]
           /\ IF fs[file].exists
              THEN /\ hashesDict' = [hashesDict EXCEPT ![p] = DictUpdate(@, i[p], sha256(file))]
                   /\ i' = [i EXCEPT ![p] = @ + 1]
                   /\ UNCHANGED <<pc, failedAt>>
              ELSE /\ Fail(p, "read")
                   /\ UNCHANGED <<hashesDict, i>>
    /\ UNCHANGED <<fs, destExists, out, prior, fileExt, iterations,
                   hashes_concat, hash_of_hashes, fault, ret>>

\* line 39 and lines 52-57: hash_all returns, the digests are aggregated
Aggregate(p) ==
    /\ pc[p] = "hash"
    /\ i[p] >= iterations[p]
    /\ hashes_concat' = [hashes_concat EXCEPT ![p] = ConcatHashes(hashesDict[p])]
    /\ hash_of_hashes' = [hash_of_hashes EXCEPT ![p] = hashString(ConcatHashes(hashesDict[p]))]
    /\ pc' = [pc EXCEPT ![p] = ArtifactOrder[1]]
    /\ UNCHANGED <<fs, destExists, out, prior, fileExt, iterations, i, hashesDict,
                   readLog, failedAt, fault, ret>>

\* lines 61-79: one write block; the last one is followed by the return.
\* open() may fail (file untouched); a failing write leaves a truncated file
WriteArtifact(p) ==
    /\ pc[p] \in Artifacts
    /\ LET name == pc[p]
           data == Payload(p, name)
       IN  \E outcome \in {"ok", "open fails", "write fails"} :
             CASE outcome = "ok" ->
                    /\ out' = [out EXCEPT ![name] = WriteW(@, data)]
                    /\ pc' = [pc EXCEPT ![p] = NextPc(name)]
                    /\ ret' = [ret EXCEPT ![p] =
                                 IF NextPc(name) = "returned"
                                 THEN [dictionary |-> hashesDict[p],
                                       concatenated |-> hashes_concat[p],
                                       hashOfAll |-> hash_of_hashes[p]]
                                 ELSE @]
                    /\ UNCHANGED <<failedAt, fault>>
               [] outcome = "open fails" ->
                    /\ Fail(p, name)
                    /\ fault' = fault \cup {p}
                    /\ UNCHANGED <<out, ret>>
               [] outcome = "write fails" ->
                    /\ \E part \in Prefixes(data) : out' = [out EXCEPT ![name] = File(part)]
                    /\ Fail(p, name)
                    /\ fault' = fault \cup {p}
                    /\ UNCHANGED ret
    /\ UNCHANGED <<fs, destExists, prior, fileExt, iterations, i, hashesDict,
                   hashes_concat, hash_of_hashes, readLog>>

Next ==
    \E p \in SeqProcs :
        \/ CheckFolder(p)
        \/ Mkdir(p)
        \/ HashFile(p)
        \/ Aggregate(p)
        \/ WriteArtifact(p)

Spec == Init /\ [][Next]_vars

\* --------------------------------------------- two overlapping invocations
\* same alias, extension and destination folder; each invocation reads its
\* own input folder, where every file of its range exists
InitConc ==
    /\ fileExt \in Exts
    /\ iterations \in [Procs -> 0..MaxCount]
    /\ fs = [path \in InputPaths(fileExt) |->
               IF \E k \in 0..(MaxCount - 1) : path = Path(Folders[1], fileExt, k)
               THEN File(<<97>>)
               ELSE IF \E k \in 0..(MaxCount - 1) : path = Path(Folders[2], fileExt, k)
                    THEN File(<<98>>)
                    ELSE NoFile]
    /\ InitDest
    /\ InitLocals

NextConc ==
    \E p \in Procs :
        \/ CheckFolder(p)
        \/ Mkdir(p)
        \/ HashFile(p)
        \/ Aggregate(p)
        \/ WriteArtifact(p)

SpecConc == InitConc /\ [][NextConc]_vars

\* ------------------------------------------------------------------ claims
\* hash_all has returned: the invocation is at a write block, has returned,
\* or failed in a write block
AfterHashAll(p) ==
    \/ pc[p] \in Artifacts \cup {"returned"}
    \/ pc[p] = "failed" /\ failedAt[p] \in Artifacts

InputExists(p, k) == fs[Path(Folders[p], fileExt, k)].exists

\* the digest of the input file of index k
DigestOf(p, k) == sha256(Path(Folders[p], fileExt, k))

\* C1: when all files 0..count-1 exist, hash_all does not fail, and the
\* mapping it returns has exactly count entries, the k-th of them (in
\* iteration order) having the key k-1
C1_OneEntryPerIndex ==
    \A p \in Procs :
        /\ (\A k \in 0..(iterations[p] - 1) : InputExists(p, k)) => failedAt[p] # "read"
        /\ AfterHashAll(p) =>
              /\ Len(hashesDict[p]) = iterations[p]
              /\ \A k \in 1..Len(hashesDict[p]) : hashesDict[p][k][1] = k - 1

C1_Witness ==
    /\ pc[1] = "csv"
    /\ iterations[1] >= 3
    /\ Len(hashesDict[1]) >= 3

\* C2: when the input file of index k is the first missing one, no file of
\* an index above k is read, the invocation fails at the read of index k,
\* never reaches a write block or a normal return, and the four output
\* files stay as they were
C2_FailFast ==
    \A p \in SeqProcs :
    \A k \in 0..(iterations[p] - 1) :
        (~InputExists(p, k) /\ \A j \in 0..(k - 1) : InputExists(p, j)) =>
            /\ \A n \in 1..Len(readLog[p]) :
                  \E j \in 0..k : readLog[p][n] = Path(Folders[p], fileExt, j)
            /\ Len(readLog[p]) <= k + 1
            /\ Len(readLog[p]) = k + 1 => pc[p] = "failed" /\ failedAt[p] = "read"
            /\ ~AfterHashAll(p)
            /\ ret[p] = NoRet
            /\ out = prior

C2_Witness ==
    /\ iterations[1] = 3
    /\ InputExists(1, 0) /\ ~InputExists(1, 1) /\ InputExists(1, 2)
    /\ pc[1] = "failed" /\ failedAt[1] = "read"
    /\ Len(readLog[1]) = 2
    /\ prior["csv"].exists

\* first position of a line break in s (0 if none)
FirstBreak(s) == IF \E k \in 1..Len(s) : s[k] = "\n"
                 THEN CHOOSE k \in 1..Len(s) :
                         s[k] = "\n" /\ \A j \in 1..(k - 1) : s[j] # "\n"
                 ELSE 0

RECURSIVE Lines(_)
\* the lines of a text whose last line has no line break after it
Lines(s) == IF FirstBreak(s) = 0 THEN <<s>>
            ELSE <<SubSeq(s, 1, FirstBreak(s) - 1)>>
                 \o Lines(SubSeq(s, FirstBreak(s) + 1, Len(s)))

\* C3: for count >= 1 the one-hash-per-line file has exactly count lines,
\* line k holding exactly the digest of index k-1
C3_OneDigestPerLine ==
    \A p \in SeqProcs :
        (pc[p] = "returned" /\ iterations[p] >= 1) =>
            Lines(out["txt"].data) = [k \in 1..iterations[p] |-> DigestOf(p, k - 1)]

\* C4: the n-th path read by hash_all is folder + (n-1) + "." + extension
\* for a non-empty extension and folder + (n-1) for the empty extension
C4_PathOfIndex ==
    \A p \in Procs :
    \A n \in 1..Len(readLog[p]) :
        readLog[p][n] = IF fileExt = <<>>
                        THEN Folders[p] \o str(n - 1)
                        ELSE Folders[p] \o str(n - 1) \o <<".">> \o fileExt

RECURSIVE JoinDigests(_, _)
\* the digests of the input files 0..n-1, one after the other
JoinDigests(p, n) == IF n = 0 THEN <<>>
                     ELSE JoinDigests(p, n - 1) \o DigestOf(p, n - 1)

\* aggregation is done
AfterAggregate(p) == AfterHashAll(p)

\* C5: after the aggregation the concatenated string is the digests of the
\* indices 0..count-1 in ascending order without separator, the hash of
\* hashes is hashString of that string, aggregating the mapping again gives
\* the same string, and for count = 0 the mapping and the string are empty
\* and the hash of hashes is the hash of the empty string
C5_Aggregate ==
    \A p \in Procs :
        AfterAggregate(p) =>
            /\ hashes_concat[p] = JoinDigests(p, iterations[p])
            /\ hash_of_hashes[p] = hashString(JoinDigests(p, iterations[p]))
            /\ ConcatHashes(hashesDict[p]) = hashes_concat[p]
            /\ iterations[p] = 0 =>
                  /\ hashesDict[p] = <<>>
                  /\ hashes_concat[p] = <<>>
                  /\ hash_of_hashes[p] = hexdigest(NewHash)

C5_Witness ==
    /\ pc[1] = "csv"
    /\ iterations[1] >= 2
    /\ DigestOf(1, 0) # DigestOf(1, 1)
    /\ Len(hashes_concat[1]) = iterations[1] * DigestLen

\* the reassignments of n digests to the indices 0..n-1
Perms(n) == {f \in [1..n -> 1..n] : \A a, b \in 1..n : f[a] = f[b] => a = b}

\* the mapping whose index k-1 holds the digest that index f[k]-1 held
Reorder(d, f) == [k \in 1..Len(d) |-> <<d[k][1], d[f[k]][2]>>]

\* C6 (as stated): every reassignment of the digests to the indices other
\* than the identity changes the concatenated string
C6_EveryReorderChanges ==
    \A p \in Procs :
        AfterHashAll(p) =>
            \A f \in Perms(Len(hashesDict[p])) :
                f # [k \in 1..Len(hashesDict[p]) |-> k] =>
                    ConcatHashes(Reorder(hashesDict[p], f)) # ConcatHashes(hashesDict[p])

\* C6 (amended): every reassignment of the digests to the indices that
\* gives some index a digest other than the one it held changes the
\* concatenated string
C6_ReorderChanges ==
    \A p \in Procs :
        AfterHashAll(p) =>
            \A f \in Perms(Len(hashesDict[p])) :
                Reorder(hashesDict[p], f) # hashesDict[p] =>
                    ConcatHashes(Reorder(hashesDict[p], f)) # ConcatHashes(hashesDict[p])

C6_Witness ==
    /\ pc[1] = "csv"
    /\ Len(hashesDict[1]) >= 3
    /\ hashesDict[1][1][2] # hashesDict[1][2][2]
    /\ hashesDict[1][1][2] = hashesDict[1][3][2]

RECURSIVE ExpectedRows(_, _)
\* the rows  index;digest  of the indices 0..n-1, each ended by a line break
ExpectedRows(p, n) ==
    IF n = 0 THEN <<>>
    ELSE ExpectedRows(p, n - 1) \o str(n - 1) \o <<";">> \o DigestOf(p, n - 1) \o <<"\n">>

ExpectedCsv(p) ==
    <<"token id", ";">> \o Alias \o <<" hash (sha256)", "\n">> \o ExpectedRows(p, iterations[p])

\* C7: after a normal return every item was read and hashed, the four
\* output files exist and hold this run's data only: the CSV is the header
\* and one row per index in ascending order, the concatenation file is the
\* returned "concatenated", the hash-of-hashes file is the returned
\* "hashOfAll", the one-per-line file holds the digests and line breaks
\* only; an invocation that failed has returned nothing
C7_AllOrFailed ==
    \A p \in SeqProcs :
        /\ pc[p] = "returned" =>
              /\ Len(readLog[p]) = iterations[p]
              /\ \A k \in 0..(iterations[p] - 1) : InputExists(p, k)
              /\ ret[p].dictionary = [k \in 1..iterations[p] |-> <<k - 1, DigestOf(p, k - 1)>>]
              /\ \A a \in Artifacts : out[a].exists
              /\ out["csv"].data = ExpectedCsv(p)
              /\ out["concat"].data = ret[p].concatenated
              /\ out["concat"].data = JoinDigests(p, iterations[p])
              /\ out["hoh"].data = ret[p].hashOfAll
              /\ Len(out["hoh"].data) = DigestLen
              /\ \A k \in 1..Len(out["txt"].data) :
                    \/ out["txt"].data[k] = "\n"
                    \/ \E h \in 1..Len(HexDigits) : out["txt"].data[k] = HexDigits[h]
              /\ Len(out["txt"].data) <= iterations[p] * (DigestLen + 1)
              /\ failedAt[p] = ""
        /\ pc[p] = "failed" => ret[p] = NoRet /\ failedAt[p] # ""
        /\ pc[p] # "returned" => ret[p] = NoRet

C7_Witness ==
    /\ pc[1] = "returned"
    /\ iterations[1] >= 2
    /\ \A a \in Artifacts : prior[a].exists /\ prior[a].data # out[a].data

\* position of an output file in the order CSV, one-per-line, concatenation,
\* hash of hashes
WriteRank(a) == CASE a = "csv" -> 1 [] a = "txt" -> 2 [] a = "concat" -> 3 [] a = "hoh" -> 4

\* C8: an invocation that is at (or failed in) the write of an output file
\* has given every file before it in the order this run's content, and has
\* left every file after it as it was before the run; a failed write makes
\* the invocation fail without a return value
C8_NoRollback ==
    \A p \in SeqProcs :
    \A k \in Artifacts :
        (pc[p] = k \/ (pc[p] = "failed" /\ failedAt[p] = k)) =>
            /\ \A a \in Artifacts :
                  /\ WriteRank(a) < WriteRank(k) => out[a] = File(Payload(p, a))
                  /\ WriteRank(a) > WriteRank(k) => out[a] = prior[a]
            /\ pc[p] = k => out[k] = prior[k]
            /\ ret[p] = NoRet

C8_Witness ==
    /\ pc[1] = "failed" /\ failedAt[1] = "concat"
    /\ iterations[1] >= 1
    /\ prior["hoh"].exists /\ out["hoh"] = prior["hoh"]
    /\ out["csv"] # prior["csv"] /\ out["txt"] # prior["txt"]

Finished(p) == pc[p] \in {"returned", "failed"}

\* the four output files as the invocation p writes them
OutputOf(p) == [a \in Artifacts |-> File(Payload(p, a))]

\* C9 (as stated): once two overlapping invocations have finished without
\* an I/O error of the environment, both have returned normally and the
\* four output files are the complete output of one of them
C9_LastWriterWins ==
    (Finished(1) /\ Finished(2) /\ fault = {}) =>
        /\ pc[1] = "returned" /\ pc[2] = "returned"
        /\ \E p \in Procs : out = OutputOf(p)

\* C9 (amended): once two overlapping invocations whose input files all
\* exist have finished without an I/O error of the environment, each has
\* returned normally or has failed in os.mkdir because the other created
\* the folder after its existence check, at least one has returned, and
\* each output file is entirely what one invocation that returned wrote
\* to it (different files may come from different invocations)
C9_PerFileLastWriter ==
    (Finished(1) /\ Finished(2) /\ fault = {}) =>
        /\ \A p \in Procs : pc[p] = "failed" =>
              failedAt[p] = "mkdir" /\ \E q \in Procs \ {p} : pc[q] = "returned"
        /\ \E p \in Procs : pc[p] = "returned"
        /\ \A a \in Artifacts :
              \E p \in Procs : pc[p] = "returned" /\ out[a] = OutputOf(p)[a]

C9_Witness ==
    /\ pc[1] = "returned" /\ pc[2] = "returned" /\ fault = {}
    /\ out["csv"] = OutputOf(2)["csv"] /\ out["csv"] # OutputOf(1)["csv"]
    /\ out["hoh"] = OutputOf(1)["hoh"] /\ out["hoh"] # OutputOf(2)["hoh"]

\* C10: after a normal return, hashListString of the text read back from
\* the one-hash-per-line file is the returned "hashOfAll", and that text
\* without its line breaks is the returned "concatenated"
C10_RoundTrip ==
    \A p \in SeqProcs :
        pc[p] = "returned" =>
            /\ hashListString(getListFromTxtFile("txt")) = ret[p].hashOfAll
            /\ StripNewlines(getListFromTxtFile("txt")) = ret[p].concatenated

C10_Witness ==
    /\ pc[1] = "returned"
    /\ iterations[1] >= 3
    /\ \E k \in 1..Len(out["txt"].data) : out["txt"].data[k] = "\n"

====
